---- MODULE Spec2Model ----
(***************************************************************************)
(* Model of snow-harvester, src/src/main/Main.js: the start-up discovery   *)
(* (initContracts), the polling loop started by the main IIFE, the promise *)
(* chain of one cycle (createHarvests .. logHarvestingResults) and         *)
(* handleError.  Chain reads are inputs drawn from small sets; a read may  *)
(* also fail.  Each in-flight promise chain is one entry of `cycles`.      *)
(***************************************************************************)
EXTENDS Integers, Sequences, FiniteSets, TLC

\* ---------------------------------------------------------------- bounds
MaxWants == 2          \* length of CONFIG.WANTS
MaxCycles == 2         \* number of loop() invocations explored
MaxAmount == 3         \* largest amount a chain read answers in OneCycle

\* ------------------------------------------------------- input domains
Failed == -1           \* a numeric chain call whose promise rejects
NoAnswer == [rejected |-> TRUE]   \* a record-valued chain call whose promise rejects
Malformed == 0         \* a registry answer that is not an address

GlobeOf(want) == 10 + want
StrategyOf(want) == 20 + want

\* An environment: CONFIG.WANTS, CONFIG.TEST_MODE, how many times loop() runs, and
\* the answers the chain may give to each kind of read.
\* Overlap: several cycles in flight at once, few distinct chain answers.
Overlap ==
    [wants |-> [i \in 1..MaxWants |-> i],
     maxCycles |-> MaxCycles,
     testModes |-> BOOLEAN,
     txCounts |-> {0, 1},
     harvestable |-> {2},
     fee |-> {0, 1},
     wavaxReserve0 |-> {1},
     wavaxReserve1 |-> {1},
     usdtReserve0 |-> {1},
     usdtReserve1 |-> {1},
     gas |-> {1},
     gasPrice |-> {1, 2}]

\* OneCycle: the first cycle alone (the interval outlasts it), many chain answers.
OneCycle ==
    [wants |-> [i \in 1..MaxWants |-> i],
     maxCycles |-> 1,
     testModes |-> {FALSE},
     txCounts |-> {1},
     harvestable |-> {0, MaxAmount},
     fee |-> 0..MaxAmount,
     wavaxReserve0 |-> 0..(MaxAmount - 1),
     wavaxReserve1 |-> 0..MaxAmount,
     usdtReserve0 |-> {0, 1},
     usdtReserve1 |-> {1},
     gas |-> {1},
     gasPrice |-> 1..MaxAmount]

\* Scenario: one more tracked asset than the other environments, the first
\* cycle alone, dry-run off, few distinct chain answers.
Scenario ==
    [wants |-> [i \in 1..(MaxWants + 1) |-> i],
     maxCycles |-> 1,
     testModes |-> {FALSE},
     txCounts |-> {1},
     harvestable |-> {2},
     fee |-> {0, 1},
     wavaxReserve0 |-> {1},
     wavaxReserve1 |-> {1},
     usdtReserve0 |-> {1},
     usdtReserve1 |-> {1},
     gas |-> {1},
     gasPrice |-> {1, 2}]

VARIABLES
    TEST_MODE,      \* CONFIG.TEST_MODE
    proc,           \* main IIFE / process: "starting", "running", "startFailed", "exited"
    wantIdx,        \* initContracts: index of the next wantAddress
    registryAnswers,\* what globes() and strategies() answered, per wantAddress so far
    contractCache,  \* initContracts: local list being built
    contracts,      \* main IIFE: const contracts (<<>> until assigned)
    initCalls,      \* number of initContracts invocations so far
    timerInstalled, \* setInterval(loop, CONFIG.INTERVAL) has been called
    cycles,         \* one record per loop() invocation
    sends,          \* the tx.send calls made so far, in call order
    txCount,        \* the wallet's transaction count on chain
    exitTimers,     \* pending setTimeout(() => process.exit(1), 1000)
    errors          \* what handleError printed, in order

vars == <<TEST_MODE, proc, wantIdx, registryAnswers, contractCache, contracts, initCalls,
          timerInstalled, cycles, sends, txCount, exitTimers, errors>>

\* ------------------------------------------------------------- helpers
IsAddress(a) == a # Malformed /\ a # Failed

RECURSIVE FlattenStrategies(_)
FlattenStrategies(cs) ==
    IF cs = <<>> THEN <<>>
    ELSE Head(cs).strategies \o FlattenStrategies(Tail(cs))

RECURSIVE FlattenGlobes(_)
FlattenGlobes(cs) ==
    IF cs = <<>> THEN <<>>
    ELSE Head(cs).globes \o FlattenGlobes(Tail(cs))

\* mutant of NewCycle: the vaults are taken for the strategies
NewCycleOfGlobes(cs) ==
    [pc |-> "createHarvests",
     strategyContracts |-> FlattenGlobes(cs),
     harvests |-> <<>>,
     poolReads |-> <<>>,
     nonce |-> Failed,
     nonceReads |-> 0,
     settled |-> <<>>,
     reported |-> <<>>]

\* loop(): a new promise chain over the strategies of `cs`
NewCycle(cs) ==
    [pc |-> "createHarvests",
     strategyContracts |-> FlattenStrategies(cs),
     harvests |-> <<>>,
     poolReads |-> <<>>,
     nonce |-> Failed,
     nonceReads |-> 0,
     settled |-> <<>>,
     reported |-> <<>>]

\* mutant of HandleErrorTimers: handleError only logs
HandleErrorNoExit == exitTimers

\* handleError(err): print, then schedule process.exit(1)
HandleErrorLog(err) == Append(errors, err)
HandleErrorTimers == exitTimers + 1

\* ------------------------------------------------------------ start-up
InitIn(env) ==
    /\ TEST_MODE \in env.testModes
    /\ proc = "starting"
    /\ wantIdx = 1
    /\ registryAnswers = <<>>
    /\ contractCache = <<>>
    /\ contracts = <<>>
    /\ initCalls = 1
    /\ timerInstalled = FALSE
    /\ cycles = <<>>
    /\ sends = <<>>
    /\ txCount \in env.txCounts
    /\ exitTimers = 0
    /\ errors = <<>>

\* mutant of NextContractCache: only the strategy address is validated
NextContractCacheStrategyOnly(cache, globe, strategy) ==
    IF ~IsAddress(strategy)
    THEN cache
    ELSE Append(cache, [globes |-> <<globe>>, strategies |-> <<strategy>>])

\* one iteration of the for loop of initContracts, given the two registry answers
NextContractCache(cache, globe, strategy) ==
    IF ~IsAddress(globe) \/ ~IsAddress(strategy)
    THEN cache
    ELSE Append(cache, [globes |-> <<globe>>, strategies |-> <<strategy>>])

\* mutant of RegistryCallFailed: a failing strategies() call is not noticed
RegistryCallFailedGlobeOnly(globe, strategy) == globe = Failed

\* an await of the loop body throws
RegistryCallFailed(globe, strategy) == globe = Failed \/ strategy = Failed

\* One loop iteration of initContracts; after the last one the IIFE resumes:
\* contracts is assigned, loop() runs once and setInterval is called.
InitContractsStep(env) ==
    /\ proc = "starting"
    /\ wantIdx <= Len(env.wants)
    /\ \E globe \in {Failed, Malformed, GlobeOf(env.wants[wantIdx])},
          strategy \in {Failed, Malformed, StrategyOf(env.wants[wantIdx])} :
         /\ registryAnswers' = Append(registryAnswers, [globe |-> globe, strategy |-> strategy])
         /\ IF RegistryCallFailed(globe, strategy)
            THEN \* initContracts rejects, and with it the IIFE
                 /\ proc' = "startFailed"
                 /\ UNCHANGED <<wantIdx, contractCache, contracts, timerInstalled, cycles>>
            ELSE LET cache == NextContractCache(contractCache, globe, strategy) IN
                 /\ contractCache' = cache
                 /\ wantIdx' = wantIdx + 1
                 /\ IF wantIdx = Len(env.wants)
                    THEN /\ contracts' = cache
                         /\ cycles' = Append(cycles, NewCycle(cache))
                         /\ timerInstalled' = TRUE
                         /\ proc' = "running"
                    ELSE UNCHANGED <<contracts, cycles, timerInstalled, proc>>
    /\ UNCHANGED <<TEST_MODE, initCalls, sends, txCount, exitTimers, errors>>

\* mutant of Tick: a tick is skipped while an earlier cycle is unfinished
TickExclusive(env) ==
    /\ proc = "running"
    /\ timerInstalled
    /\ Len(cycles) < env.maxCycles
    /\ \A c \in 1..Len(cycles) : cycles[c].pc \in {"done", "failed"}
    /\ cycles' = Append(cycles, NewCycle(contracts))
    /\ UNCHANGED <<TEST_MODE, proc, wantIdx, registryAnswers, contractCache, contracts, initCalls,
                   timerInstalled, sends, txCount, exitTimers, errors>>

\* the interval timer fires: loop()
Tick(env) ==
    /\ proc = "running"
    /\ timerInstalled
    /\ Len(cycles) < env.maxCycles
    /\ cycles' = Append(cycles, NewCycle(contracts))
    /\ UNCHANGED <<TEST_MODE, proc, wantIdx, registryAnswers, contractCache, contracts, initCalls,
                   timerInstalled, sends, txCount, exitTimers, errors>>

\* the timer set by handleError fires: process.exit(1)
Exit ==
    /\ proc = "running"
    /\ exitTimers > 0
    /\ proc' = "exited"
    /\ UNCHANGED <<TEST_MODE, wantIdx, registryAnswers, contractCache, contracts, initCalls,
                   timerInstalled, cycles, sends, txCount, exitTimers, errors>>

\* ------------------------------------------------- one cycle: stages 1-4
Undefined == [undefined |-> TRUE]

\* CONFIG.STRATEGY_NAME[address]: the display label configured for a strategy
STRATEGY_NAME(address) == <<"name", address>>

Running(c) == proc = "running" /\ c \in 1..Len(cycles)

\* mutant of AbortWith: handleError also cancels every other unfinished chain
AbortWithOthers(c, stage, reads) ==
    /\ cycles' = [d \in DOMAIN cycles |->
                    IF d = c
                    THEN [cycles[d] EXCEPT !.pc = "failed", !.harvests = <<>>,
                                           !.poolReads = reads]
                    ELSE IF cycles[d].pc \in {"done", "failed"}
                    THEN cycles[d]
                    ELSE [cycles[d] EXCEPT !.pc = "failed", !.harvests = <<>>]]
    /\ errors' = HandleErrorLog([cycle |-> c, stage |-> stage])
    /\ exitTimers' = HandleErrorTimers

\* .catch(handleError) of the chain of cycle c: the rest of the chain is
\* skipped and the records built so far are dropped with the rejected promise;
\* `reads` are the getReserves answers the failing stage received, if any
AbortWith(c, stage, reads) ==
    /\ cycles' = [cycles EXCEPT ![c].pc = "failed", ![c].harvests = <<>>,
                                ![c].poolReads = reads]
    /\ errors' = HandleErrorLog([cycle |-> c, stage |-> stage])
    /\ exitTimers' = HandleErrorTimers

\* mutant of Abort: the error is logged and the chain carries on
AbortSwallowed(c, stage) ==
    /\ errors' = HandleErrorLog([cycle |-> c, stage |-> stage])
    /\ exitTimers' = HandleErrorTimers
    /\ UNCHANGED cycles

Abort(c, stage) == AbortWith(c, stage, <<>>)

\* the chain of cycle c moves on to `stage` with the new record list
AdvanceWith(c, stage, hs, reads) ==
    /\ cycles' = [cycles EXCEPT ![c].pc = stage, ![c].harvests = hs,
                                ![c].poolReads = reads]
    /\ UNCHANGED <<errors, exitTimers>>

Advance(c, stage, hs) == AdvanceWith(c, stage, hs, <<>>)

AnyFailed(reads) == \E i \in DOMAIN reads : reads[i] = Failed
AnyNoAnswer(reads) == \E i \in DOMAIN reads : reads[i] = NoAnswer

\* mapStrategyToHarvestable, given the answers of its three calls
mapStrategyToHarvestable(strategyContract, read) ==
    [strategy |-> strategyContract,
     name |-> STRATEGY_NAME(strategyContract),
     harvestable |-> read.harvestable,
     treasuryFee |-> read.fee,
     treasuryMax |-> read.max]

HarvestableReads(env) ==
    [harvestable : env.harvestable, fee : env.fee, max : env.fee] \cup {NoAnswer}

\* stage 1: Promise.all over the strategies settles
CreateHarvests(c, env) ==
    /\ Running(c)
    /\ cycles[c].pc = "createHarvests"
    /\ LET sc == cycles[c].strategyContracts IN
       \E reads \in [DOMAIN sc -> HarvestableReads(env)] :
          IF AnyNoAnswer(reads)
          THEN Abort(c, "createHarvests")
          ELSE Advance(c, "addHarvestTx",
                       [i \in DOMAIN sc |-> mapStrategyToHarvestable(sc[i], reads[i])])
    /\ UNCHANGED <<TEST_MODE, proc, wantIdx, registryAnswers, contractCache, contracts, initCalls,
                   timerInstalled, sends, txCount>>

\* stage 2: the harvest() call object is attached; no chain call is made
HarvestTxOf(harvest) == [to |-> harvest.strategy, method |-> "harvest"]

AddHarvestTx(c) ==
    /\ Running(c)
    /\ cycles[c].pc = "addHarvestTx"
    /\ LET hs == cycles[c].harvests IN
       Advance(c, "addHarvestGain",
               [i \in DOMAIN hs |-> hs[i] @@ [tx |-> HarvestTxOf(hs[i])]])
    /\ UNCHANGED <<TEST_MODE, proc, wantIdx, registryAnswers, contractCache, contracts, initCalls,
                   timerInstalled, sends, txCount>>

\* Util.convertViaPool: quantity * reserveOut / reserveIn in BN arithmetic;
\* BN division by zero throws, which is the value Failed here
convertViaPool(quantity, reserveIn, reserveOut) ==
    IF reserveIn = 0 THEN Failed ELSE (quantity * reserveOut) \div reserveIn

\* mutant of convertPNGToWavax: the reserves are passed the other way round
convertPNGToWavaxSwapped(pngQuantity, reserves) ==
    IF reserves = NoAnswer THEN Failed
    ELSE convertViaPool(pngQuantity, reserves.reserve1, reserves.reserve0)

\* convertPNGToWavax / convertPNGToUSDT, given the answer of getReserves
convertPNGToWavax(pngQuantity, reserves) ==
    IF reserves = NoAnswer THEN Failed
    ELSE convertViaPool(pngQuantity, reserves.reserve0, reserves.reserve1)

convertPNGToUSDT(pngQuantity, reserves) ==
    IF reserves = NoAnswer THEN Failed
    ELSE convertViaPool(pngQuantity, reserves.reserve0, reserves.reserve1)

ReservesReads(reserves0, reserves1) ==
    [reserve0 : reserves0, reserve1 : reserves1] \cup {NoAnswer}

\* stage 3; the getReserves answers stay visible in poolReads until stage 4 settles
AddHarvestGain(c, env) ==
    /\ Running(c)
    /\ cycles[c].pc = "addHarvestGain"
    /\ LET hs == cycles[c].harvests IN
       \E wavax \in [DOMAIN hs -> ReservesReads(env.wavaxReserve0, env.wavaxReserve1)],
          usdt \in [DOMAIN hs -> ReservesReads(env.usdtReserve0, env.usdtReserve1)] :
          LET gainWAVAX == [i \in DOMAIN hs |-> convertPNGToWavax(hs[i].harvestable, wavax[i])]
              gainUSDT == [i \in DOMAIN hs |-> convertPNGToUSDT(hs[i].harvestable, usdt[i])]
              reads == [i \in DOMAIN hs |-> [wavax |-> wavax[i], usdt |-> usdt[i]]]
          IN IF AnyFailed(gainWAVAX) \/ AnyFailed(gainUSDT)
             THEN AbortWith(c, "addHarvestGain", reads)
             ELSE AdvanceWith(c, "addHarvestGas",
                              [i \in DOMAIN hs |-> hs[i] @@ [gainWAVAX |-> gainWAVAX[i],
                                                             gainUSDT |-> gainUSDT[i]]],
                              reads)
    /\ UNCHANGED <<TEST_MODE, proc, wantIdx, registryAnswers, contractCache, contracts, initCalls,
                   timerInstalled, sends, txCount>>

\* mutant of WithGas: the gas price is not attached
WithGasOnly(harvest, gas, gasPrice) == harvest @@ [gas |-> gas]

\* the record the addHarvestGas callback returns: harvest plus gas and gasPrice
WithGas(harvest, gas, gasPrice) == harvest @@ [gas |-> gas, gasPrice |-> gasPrice]

\* stage 4
AddHarvestGas(c, env) ==
    /\ Running(c)
    /\ cycles[c].pc = "addHarvestGas"
    /\ LET hs == cycles[c].harvests IN
       \E gas \in [DOMAIN hs -> env.gas \cup {Failed}],
          gasPrice \in [DOMAIN hs -> env.gasPrice \cup {Failed}] :
          IF AnyFailed(gas) \/ AnyFailed(gasPrice)
          THEN Abort(c, "addHarvestGas")
          ELSE Advance(c, "filterHarvestByCostVsGain",
                       [i \in DOMAIN hs |-> WithGas(hs[i], gas[i], gasPrice[i])])
    /\ UNCHANGED <<TEST_MODE, proc, wantIdx, registryAnswers, contractCache, contracts, initCalls,
                   timerInstalled, sends, txCount>>

\* ------------------------------------------------------ stage 5: filter
costAsAvax(harvest) == harvest.gas * harvest.gasPrice

\* mutant of treasuryGainAsAvax: the division is made before the multiplication
treasuryGainDivideFirst(harvest) ==
    IF harvest.treasuryMax = 0 THEN Failed
    ELSE (harvest.gainWAVAX \div harvest.treasuryMax) * harvest.treasuryFee

\* BN div throws on a zero divisor: Failed
treasuryGainAsAvax(harvest) ==
    IF harvest.treasuryMax = 0 THEN Failed
    ELSE (harvest.gainWAVAX * harvest.treasuryFee) \div harvest.treasuryMax

\* mutant of KeepHarvest: break-even counts as profitable
KeepHarvestAtBreakEven(harvest) == costAsAvax(harvest) <= treasuryGainAsAvax(harvest)

\* the callback given to harvests.filter
KeepHarvest(harvest) == costAsAvax(harvest) < treasuryGainAsAvax(harvest)

\* mutant of filterHarvestByCostVsGain: the kept records come out last first
filterHarvestByCostVsGainReversed(harvests) ==
    LET kept == SelectSeq(harvests, KeepHarvest)
    IN [i \in DOMAIN kept |-> kept[Len(kept) + 1 - i]]

filterHarvestByCostVsGain(harvests) == SelectSeq(harvests, KeepHarvest)

\* the filter callback throws inside the synchronous .then step; the list the
\* step was given is the last value the chain of cycle c held
AbortInFilter(c) ==
    /\ cycles' = [cycles EXCEPT ![c].pc = "failed"]
    /\ errors' = HandleErrorLog([cycle |-> c, stage |-> "filterHarvestByCostVsGain"])
    /\ exitTimers' = HandleErrorTimers

\* mutant of FilterHarvestByCostVsGain: a record whose division fails is
\* dropped and the other records go on to the Executor
FilterHarvestSkippingFailures(c) ==
    /\ Running(c)
    /\ cycles[c].pc = "filterHarvestByCostVsGain"
    /\ Advance(c, "doHarvesting", filterHarvestByCostVsGain(cycles[c].harvests))
    /\ UNCHANGED <<TEST_MODE, proc, wantIdx, registryAnswers, contractCache, contracts, initCalls,
                   timerInstalled, sends, txCount>>

FilterHarvestByCostVsGain(c) ==
    /\ Running(c)
    /\ cycles[c].pc = "filterHarvestByCostVsGain"
    /\ LET hs == cycles[c].harvests IN
       IF \E i \in DOMAIN hs : treasuryGainAsAvax(hs[i]) = Failed
       THEN AbortInFilter(c)
       ELSE Advance(c, "doHarvesting", filterHarvestByCostVsGain(hs))
    /\ UNCHANGED <<TEST_MODE, proc, wantIdx, registryAnswers, contractCache, contracts, initCalls,
                   timerInstalled, sends, txCount>>

\* ---------------------------------------------------- stage 6: executor
\* mutant of NonceFor: positions are counted from one
NonceForOneBased(nonce, i) == nonce + i + 1

\* mutant of NonceFor: every record gets the base nonce
NonceForBase(nonce, i) == nonce

\* the nonce executeHarvestTx gives to the record at 0-based position i
NonceFor(nonce, i) == nonce + i

\* the argument of harvest.tx.send for the record at 1-based position k
SendCall(c, harvests, nonce, k) ==
    [cycle |-> c, index |-> k - 1, to |-> harvests[k].tx.to,
     gas |-> harvests[k].gas, gasPrice |-> harvests[k].gasPrice,
     nonce |-> NonceFor(nonce, k - 1)]

\* one entry of the array Promise.allSettled resolves to
Fulfilled(value) == [status |-> "fulfilled", value |-> value]
Rejected(reason) == [status |-> "rejected", reason |-> reason]
Pending == [status |-> "pending"]

ValueOf(result) == IF "value" \in DOMAIN result THEN result.value ELSE Undefined
ReasonOf(result) == IF "reason" \in DOMAIN result THEN result.reason ELSE Undefined
Truthy(v) == v # Undefined

\* mutant of LogLine: the success branch is taken on a truthy value only
LogLineValueOnly(result, harvest, testMode) ==
    LET value == ValueOf(result) IN
    IF Truthy(value)
    THEN [kind |-> "success", strategy |-> value.to, name |-> harvest.name,
          harvestable |-> harvest.harvestable, gainUSDT |-> harvest.gainUSDT,
          transaction |-> value.transactionHash]
    ELSE [kind |-> "failure", strategy |-> harvest.strategy, name |-> harvest.name,
          reason |-> ReasonOf(result)]

\* one iteration of the loop of logHarvestingResults
LogLine(result, harvest, testMode) ==
    LET value == ValueOf(result) IN
    IF Truthy(value) \/ testMode
    THEN [kind |-> "success",
          strategy |-> IF Truthy(value) THEN value.to ELSE harvest.strategy,
          name |-> harvest.name,
          harvestable |-> harvest.harvestable,
          gainUSDT |-> harvest.gainUSDT,
          transaction |-> IF Truthy(value) THEN value.transactionHash ELSE "[real tx hash]"]
    ELSE [kind |-> "failure",
          strategy |-> harvest.strategy,
          name |-> harvest.name,
          reason |-> ReasonOf(result)]

logHarvestingResults(results, harvests, testMode) ==
    [i \in 1..Len(results) |-> LogLine(results[i], harvests[i], testMode)]

\* mutant of AllSettled: the first submission to settle resolves the batch
AnySettled(results) == \E i \in DOMAIN results : results[i].status # "pending"

AllSettled(results) == \A i \in DOMAIN results : results[i].status # "pending"

\* mutant of AfterSubmissions: Promise.all instead of Promise.allSettled, one
\* rejection rejects the batch
AfterSubmissionsAll(cycle, results, testMode) ==
    IF \E i \in DOMAIN results : results[i].status = "rejected"
    THEN [cycle EXCEPT !.pc = "failed", !.settled = results]
    ELSE IF AllSettled(results)
    THEN [cycle EXCEPT !.pc = "done", !.settled = results,
                       !.reported = logHarvestingResults(results, cycle.harvests, testMode)]
    ELSE [cycle EXCEPT !.pc = "allSettled", !.settled = results]

\* the state of cycle c once its submissions stand at `results`: when none is
\* pending, allSettled resolves and logHarvestingResults runs
AfterSubmissions(cycle, results, testMode) ==
    IF AllSettled(results)
    THEN [cycle EXCEPT !.pc = "done", !.settled = results,
                       !.reported = logHarvestingResults(results, cycle.harvests, testMode)]
    ELSE [cycle EXCEPT !.pc = "allSettled", !.settled = results]

\* doHarvesting: getTransactionCount answers; every executeHarvestTx is called
DoHarvesting(c) ==
    /\ Running(c)
    /\ cycles[c].pc = "doHarvesting"
    /\ LET hs == cycles[c].harvests IN
       \E nonce \in {txCount, Failed} :
          IF nonce = Failed
          THEN /\ cycles' = [cycles EXCEPT ![c].pc = "failed", ![c].harvests = <<>>,
                                           ![c].nonceReads = @ + 1]
               /\ errors' = HandleErrorLog([cycle |-> c, stage |-> "doHarvesting"])
               /\ exitTimers' = HandleErrorTimers
               /\ UNCHANGED sends
          ELSE LET read == [cycles[c] EXCEPT !.nonce = nonce, !.nonceReads = @ + 1] IN
               /\ IF TEST_MODE
                  THEN /\ cycles' = [cycles EXCEPT ![c] =
                              AfterSubmissions(read, [i \in DOMAIN hs |-> Fulfilled(Undefined)],
                                               TEST_MODE)]
                       /\ UNCHANGED sends
                  ELSE /\ cycles' = [cycles EXCEPT ![c] =
                              AfterSubmissions(read, [i \in DOMAIN hs |-> Pending], TEST_MODE)]
                       /\ sends' = sends \o [k \in DOMAIN hs |-> SendCall(c, hs, nonce, k)]
               /\ UNCHANGED <<errors, exitTimers>>
    /\ UNCHANGED <<TEST_MODE, proc, wantIdx, registryAnswers, contractCache, contracts, initCalls,
                   timerInstalled, txCount>>

\* the receipt a mined harvest transaction resolves to
Receipt(harvest, nonce) == [to |-> harvest.tx.to, transactionHash |-> <<"hash", harvest.tx.to, nonce>>]

\* the promise of one tx.send settles: mined, mined but reverted, or refused
Settle(c, k) ==
    /\ Running(c)
    /\ cycles[c].pc = "allSettled"
    /\ k \in DOMAIN cycles[c].settled
    /\ cycles[c].settled[k] = Pending
    /\ LET cy == cycles[c]
           nonce == NonceFor(cy.nonce, k - 1)
       IN \E outcome \in {"mined", "reverted", "refused"} :
             /\ outcome \in {"mined", "reverted"} => nonce = txCount
             /\ txCount' = IF outcome = "refused" THEN txCount ELSE txCount + 1
             /\ LET result == IF outcome = "mined"
                              THEN Fulfilled(Receipt(cy.harvests[k], nonce))
                              ELSE Rejected(outcome)
                IN cycles' = [cycles EXCEPT ![c] =
                       AfterSubmissions(cy, [cy.settled EXCEPT ![k] = result], TEST_MODE)]
    /\ UNCHANGED <<TEST_MODE, proc, wantIdx, registryAnswers, contractCache, contracts, initCalls,
                   timerInstalled, sends, exitTimers, errors>>

\* ---------------------------------------------------------------- spec
Init == InitIn(Overlap)

Next ==
    \/ InitContractsStep(Overlap)
    \/ Tick(Overlap)
    \/ Exit
    \/ \E c \in 1..MaxCycles : CreateHarvests(c, Overlap)
    \/ \E c \in 1..MaxCycles : AddHarvestTx(c)
    \/ \E c \in 1..MaxCycles : AddHarvestGain(c, Overlap)
    \/ \E c \in 1..MaxCycles : AddHarvestGas(c, Overlap)
    \/ \E c \in 1..MaxCycles : FilterHarvestByCostVsGain(c)
    \/ \E c \in 1..MaxCycles : DoHarvesting(c)
    \/ \E c \in 1..MaxCycles, k \in 1..MaxWants : Settle(c, k)

Spec == Init /\ [][Next]_vars

InitCycle == InitIn(OneCycle)

NextCycle ==
    \/ InitContractsStep(OneCycle)
    \/ Exit
    \/ CreateHarvests(1, OneCycle)
    \/ AddHarvestTx(1)
    \/ AddHarvestGain(1, OneCycle)
    \/ AddHarvestGas(1, OneCycle)
    \/ FilterHarvestByCostVsGain(1)
    \/ DoHarvesting(1)
    \/ \E k \in 1..MaxWants : Settle(1, k)

SpecCycle == InitCycle /\ [][NextCycle]_vars

InitScenario == InitIn(Scenario)

NextScenario ==
    \/ InitContractsStep(Scenario)
    \/ Exit
    \/ CreateHarvests(1, Scenario)
    \/ AddHarvestTx(1)
    \/ AddHarvestGain(1, Scenario)
    \/ AddHarvestGas(1, Scenario)
    \/ FilterHarvestByCostVsGain(1)
    \/ DoHarvesting(1)
    \/ \E k \in 1..(MaxWants + 1) : Settle(1, k)

SpecScenario == InitScenario /\ [][NextScenario]_vars

\* -------------------------------------------------------------- claims
Cycles == 1..Len(cycles)
Submitted(c) == cycles[c].pc \in {"allSettled", "done"}
SendsOf(c) == SelectSeq(sends, LAMBDA call : call.cycle = c)
ErrorsOf(c) == SelectSeq(errors, LAMBDA e : e.cycle = c)

\* the treasury's share of the gain exceeds the gas cost, without division:
\* cost < floor(gain * fee / max)  <=>  (cost + 1) * max <= gain * fee
StrictlyProfitable(h) ==
    (h.gas * h.gasPrice + 1) * h.treasuryMax <= h.gainWAVAX * h.treasuryFee

\* C1: when the filter stage of a cycle completes, a record it received is in
\* its output if and only if gas * gasPrice is strictly less than the truncated
\* gainWAVAX * treasuryFee / treasuryMax; a record at break-even is dropped.
C1_FilterKeepsIffStrictlyProfitable ==
    [][\A c \in Cycles :
         (cycles[c].pc = "filterHarvestByCostVsGain" /\ cycles'[c].pc = "doHarvesting")
         => \A i \in DOMAIN cycles[c].harvests :
               (\E j \in DOMAIN cycles'[c].harvests :
                    cycles'[c].harvests[j] = cycles[c].harvests[i])
               <=> StrictlyProfitable(cycles[c].harvests[i])]_vars

\* C1 witness: the filter received two records, dropped one and kept one whose
\* treasury gain is exactly one above its gas cost.
C1_Witness ==
    \E c \in Cycles :
       /\ cycles[c].pc = "doHarvesting"
       /\ Len(cycles[c].strategyContracts) = 2
       /\ Len(cycles[c].harvests) = 1
       /\ LET h == cycles[c].harvests[1] IN
          /\ h.treasuryMax > 1
          /\ (h.gainWAVAX * h.treasuryFee) % h.treasuryMax # 0
          /\ (h.gas * h.gasPrice + 1) * h.treasuryMax <= h.gainWAVAX * h.treasuryFee
          /\ (h.gas * h.gasPrice + 2) * h.treasuryMax > h.gainWAVAX * h.treasuryFee

\* C2: a cycle reads the transaction count at most once, exactly once when it
\* has submitted; the send made for the record at 0-based position i of the
\* filtered sequence carries nonce base + i and that record's address and gas,
\* whatever the other submissions of the batch turned into.
C2_NoncesFollowFilteredOrder ==
    \A c \in Cycles :
       /\ cycles[c].nonceReads <= 1
       /\ ~Submitted(c) => SendsOf(c) = <<>>
       /\ Submitted(c) =>
            /\ cycles[c].nonceReads = 1
            /\ cycles[c].nonce # Failed
            /\ ~TEST_MODE =>
                 /\ Len(SendsOf(c)) = Len(cycles[c].harvests)
                 /\ \A k \in DOMAIN cycles[c].harvests :
                       /\ SendsOf(c)[k].index = k - 1
                       /\ SendsOf(c)[k].to = cycles[c].harvests[k].strategy
                       /\ SendsOf(c)[k].nonce = cycles[c].nonce + (k - 1)

\* C2 witness: a batch of two, sent with base and base + 1, whose first
\* submission failed and whose second succeeded.
C2_Witness ==
    \E c \in Cycles :
       /\ cycles[c].pc = "done"
       /\ Len(cycles[c].harvests) = 2
       /\ cycles[c].nonce > 0
       /\ cycles[c].settled[1].status = "rejected"
       /\ cycles[c].settled[2].status = "fulfilled"
       /\ SendsOf(c)[2].nonce = SendsOf(c)[1].nonce + 1

\* C3: the Reporter runs only when no submission of the batch is pending, and
\* then reports one line per record, in order, line i about record i: a failure
\* line carrying the rejection reason exactly when submission i was rejected, a
\* success line carrying the receipt of submission i when it was fulfilled.
C3_EveryOutcomeReportedWithItsRecord ==
    \A c \in Cycles :
       /\ cycles[c].pc # "done" => cycles[c].reported = <<>>
       /\ cycles[c].pc = "done" =>
            /\ Len(cycles[c].settled) = Len(cycles[c].harvests)
            /\ Len(cycles[c].reported) = Len(cycles[c].harvests)
            /\ \A i \in DOMAIN cycles[c].harvests :
                  LET line == cycles[c].reported[i]
                      outcome == cycles[c].settled[i]
                      harvest == cycles[c].harvests[i]
                  IN /\ outcome.status \in {"fulfilled", "rejected"}
                     /\ line.strategy = harvest.strategy
                     /\ line.name = harvest.name
                     /\ outcome.status = "rejected" =>
                          line.kind = "failure" /\ line.reason = outcome.reason
                     /\ outcome.status = "fulfilled" =>
                          /\ line.kind = "success"
                          /\ ~TEST_MODE =>
                               line.transaction =
                                   <<"hash", harvest.strategy, cycles[c].nonce + (i - 1)>>

\* C3 witness: a reported batch of two with one failure line and one success line.
C3_Witness ==
    \E c \in Cycles :
       /\ cycles[c].pc = "done"
       /\ Len(cycles[c].reported) = 2
       /\ \E i, j \in 1..2 :
             /\ cycles[c].reported[i].kind = "failure"
             /\ cycles[c].reported[j].kind = "success"

\* C4: in dry-run mode tx.send is never called, and every line the Reporter
\* prints is a success line, one per record that passed the filter.
C4_DryRunSendsNothing ==
    TEST_MODE =>
       /\ sends = <<>>
       /\ \A c \in Cycles :
             /\ \A i \in DOMAIN cycles[c].reported : cycles[c].reported[i].kind = "success"
             /\ cycles[c].pc = "done" =>
                  /\ Len(cycles[c].reported) = Len(cycles[c].harvests)
                  /\ \A i \in DOMAIN cycles[c].harvests :
                        cycles[c].reported[i].strategy = cycles[c].harvests[i].strategy

\* C4 witness: a dry-run cycle has reported two records that passed the filter.
C4_Witness ==
    /\ TEST_MODE
    /\ \E c \in Cycles : cycles[c].pc = "done" /\ Len(cycles[c].reported) = 2

StageFailures == {"createHarvests", "addHarvestGain", "addHarvestGas"}

\* C5 as stated: the process never exits because of a cycle failure.
C5_ProcessNeverExits == proc # "exited"

\* C5 amended: a cycle failure is logged and schedules process.exit(1); the
\* process exits only after a cycle failure, and once it has exited no cycle
\* starts or advances any more.
C5_FailureSchedulesExit ==
    /\ [](/\ \A c \in Cycles : cycles[c].pc = "failed" =>
                /\ Len(ErrorsOf(c)) = 1
                /\ exitTimers > 0
          /\ exitTimers = Len(errors)
          /\ proc = "exited" => \E c \in Cycles : cycles[c].pc = "failed")
    /\ [][proc = "exited" => (proc' = "exited" /\ cycles' = cycles /\ sends' = sends)]_vars

\* C5 witness: the process has exited after the first cycle failed in stage 4,
\* cutting off a second cycle that the timer had started.
C5_Witness ==
    /\ proc = "exited"
    /\ Len(cycles) = 2
    /\ cycles[1].pc = "failed"
    /\ errors[1].stage = "addHarvestGas"
    /\ cycles[2].pc \notin {"failed", "done"}

\* C6: a cycle in which a chain read of stage 1, 3 or 4 failed (stage 2 makes
\* no chain read) never reaches doHarvesting: it has read no transaction count
\* and made no tx.send, whatever its other reads returned.
C6_StageFailureSubmitsNothing ==
    \A c \in Cycles :
       (\E i \in DOMAIN errors : errors[i].cycle = c /\ errors[i].stage \in StageFailures)
       => /\ cycles[c].pc = "failed"
          /\ cycles[c].nonceReads = 0
          /\ SendsOf(c) = <<>>
          /\ cycles[c].settled = <<>>
          /\ cycles[c].reported = <<>>

\* C6 witness: with dry-run off, a cycle over two strategies failed in stage 4
\* and sent nothing, while the other cycle did submit.
C6_Witness ==
    /\ ~TEST_MODE
    /\ \E c, d \in Cycles :
          /\ cycles[c].pc = "failed"
          /\ Len(cycles[c].strategyContracts) = 2
          /\ \E i \in DOMAIN errors : errors[i] = [cycle |-> c, stage |-> "addHarvestGas"]
          /\ SendsOf(c) = <<>>
          /\ SendsOf(d) # <<>>

\* C7 as stated: handleError is never invoked for a failure raised while
\* doHarvesting runs.
C7_ExecutorNeverFailsCycle ==
    \A i \in DOMAIN errors : errors[i].stage # "doHarvesting"

\* C7 amended: a rejected tx.send never fails the cycle: handleError is not
\* invoked for it and the cycle is reported once every submission has settled.
\* Only the transaction-count read fails the cycle, before any submission.
C7_SendFailuresAreIsolated ==
    \A c \in Cycles :
       /\ (\E k \in DOMAIN cycles[c].settled : cycles[c].settled[k].status = "rejected")
          => /\ cycles[c].pc \in {"allSettled", "done"}
             /\ ErrorsOf(c) = <<>>
             /\ (AllSettled(cycles[c].settled) <=> cycles[c].pc = "done")
       /\ (\E i \in DOMAIN errors : errors[i] = [cycle |-> c, stage |-> "doHarvesting"])
          => /\ cycles[c].nonce = Failed
             /\ cycles[c].nonceReads = 1
             /\ SendsOf(c) = <<>>

\* C7 witness: a cycle whose two submissions were both rejected is reported,
\* with nothing passed to handleError.
C7_Witness ==
    \E c \in Cycles :
       /\ cycles[c].pc = "done"
       /\ Len(cycles[c].settled) = 2
       /\ \A k \in 1..2 : cycles[c].settled[k].status = "rejected"
       /\ errors = <<>>

\* the targets initContracts builds from registry answers, first answer first
RECURSIVE TargetsOf(_)
TargetsOf(answers) ==
    IF answers = <<>> THEN <<>>
    ELSE LET a == Head(answers) IN
         (IF a.globe # Malformed /\ a.strategy # Malformed
          THEN <<[globes |-> <<a.globe>>, strategies |-> <<a.strategy>>]>>
          ELSE <<>>) \o TargetsOf(Tail(answers))

\* C8: the list initContracts has built holds, in input order, one target for
\* each asset answered so far whose vault and strategy address are both valid;
\* an asset with an invalid address is left out and the next ones are still
\* processed; the list returned covers every tracked asset.
C8_DiscoveryKeepsValidInOrder ==
    /\ proc = "starting" => contractCache = TargetsOf(registryAnswers)
    /\ proc \in {"running", "exited"} =>
         /\ Len(registryAnswers) = MaxWants
         /\ \A i \in 1..MaxWants :
               \/ registryAnswers[i].globe = GlobeOf(i)
               \/ registryAnswers[i].globe = Malformed
         /\ contracts = TargetsOf(registryAnswers)

\* C8 witness: the first asset resolved to a malformed vault address and was
\* skipped; the second was still processed and is the only target returned.
C8_Witness ==
    /\ proc = "running"
    /\ registryAnswers[1].globe = Malformed
    /\ registryAnswers[1].strategy = StrategyOf(1)
    /\ contracts = <<[globes |-> <<GlobeOf(2)>>, strategies |-> <<StrategyOf(2)>>]>>

\* C9 as stated: discovery has run at least once per cycle started.
C9_DiscoveryPerCycle == initCalls >= Len(cycles)

\* C9 amended: initContracts runs once, at start-up; every cycle, the first and
\* those started by the timer, evaluates the strategies of that one result.
C9_DiscoveryOnceAtStartup ==
    /\ initCalls = 1
    /\ proc = "starting" => cycles = <<>>
    /\ \A c \in Cycles :
          /\ Len(cycles[c].strategyContracts) = Len(contracts)
          /\ \A i \in DOMAIN contracts :
                cycles[c].strategyContracts[i] = contracts[i].strategies[1]
    /\ proc # "starting" /\ proc # "startFailed" => contracts = contractCache

\* C9 witness: a second cycle is running over the two targets found at start-up.
C9_Witness ==
    /\ Len(cycles) = 2
    /\ Len(contracts) = 2
    /\ cycles[2].pc = "addHarvestGas"
    /\ Len(cycles[2].harvests) = 2

\* C10: once a globes or strategies call has failed, start-up has failed for
\* good: no target list is assigned, no cycle is started, the interval timer is
\* not installed and nothing is sent.
C10_RegistryFailureStopsStartup ==
    (\E i \in DOMAIN registryAnswers :
        registryAnswers[i].globe = Failed \/ registryAnswers[i].strategy = Failed)
    => /\ proc = "startFailed"
       /\ contracts = <<>>
       /\ cycles = <<>>
       /\ ~timerInstalled
       /\ sends = <<>>

\* C10 witness: the first asset resolved, the strategies call of the second
\* failed; the target already built is never returned.
C10_Witness ==
    /\ proc = "startFailed"
    /\ Len(registryAnswers) = 2
    /\ registryAnswers[2].globe = GlobeOf(2)
    /\ registryAnswers[2].strategy = Failed
    /\ Len(contractCache) = 1

\* the tracked assets one of whose registry answers is not an address
InvalidAnswers ==
    {i \in DOMAIN registryAnswers :
        registryAnswers[i].globe = Malformed \/ registryAnswers[i].strategy = Malformed}

LinesOfKind(c, kind) ==
    {i \in DOMAIN cycles[c].reported : cycles[c].reported[i].kind = kind}

\* C11: with dry-run off and MaxWants + 1 tracked assets of which exactly one
\* resolved to an invalid address, a cycle evaluates exactly MaxWants
\* strategies; when exactly one record passed the filter, exactly one tx.send
\* is made, with the transaction count read as its nonce, and when that
\* submission succeeded the Reporter prints one success line and no failure line.
C11_EndToEndScenario ==
    (proc \in {"running", "exited"} /\ Cardinality(InvalidAnswers) = 1) =>
       /\ Len(registryAnswers) = MaxWants + 1
       /\ Len(contracts) = MaxWants
       /\ \A c \in Cycles :
             /\ Len(cycles[c].strategyContracts) = MaxWants
             /\ cycles[c].pc \in {"addHarvestTx", "addHarvestGain", "addHarvestGas",
                                  "filterHarvestByCostVsGain"}
                => Len(cycles[c].harvests) = MaxWants
             /\ (Submitted(c) /\ Len(cycles[c].harvests) = 1) =>
                  /\ Len(sends) = 1
                  /\ sends[1].cycle = c
                  /\ sends[1].to = cycles[c].harvests[1].strategy
                  /\ sends[1].nonce = cycles[c].nonce
                  /\ cycles[c].nonce = 1
             /\ (cycles[c].pc = "done" /\ Len(cycles[c].harvests) = 1
                   /\ cycles[c].settled[1].status = "fulfilled") =>
                  /\ Cardinality(LinesOfKind(c, "success")) = 1
                  /\ LinesOfKind(c, "failure") = {}

\* C11 witness: the second of the tracked assets was skipped, the cycle
\* evaluated the other strategies, one record passed the filter, its
\* transaction was mined and reported.
C11_Witness ==
    /\ InvalidAnswers = {2}
    /\ Len(cycles) = 1
    /\ cycles[1].pc = "done"
    /\ Len(cycles[1].strategyContracts) = MaxWants
    /\ Len(cycles[1].harvests) = 1
    /\ Len(sends) = 1
    /\ cycles[1].settled[1].status = "fulfilled"
    /\ txCount = 2
    /\ errors = <<>>

\* g is the truncated quotient of num by den
IsFloorOf(g, num, den) == g * den <= num /\ num < (g + 1) * den

ZeroReserveIn(read) ==
    \/ read.wavax # NoAnswer /\ read.wavax.reserve0 = 0
    \/ read.usdt # NoAnswer /\ read.usdt.reserve0 = 0

\* C12: when the gain stage of a cycle completes, every record's gainWAVAX and
\* gainUSDT is floor(harvestable * reserve1 / reserve0) of the reserves read
\* from its pool, reserve0 being positive (so a zero quantity gives zero); a
\* read with reserve0 = 0 never yields a gain: the cycle is aborted in the gain
\* stage and sends nothing.
C12_PoolConversionFloorsOrAborts ==
    \A c \in Cycles :
       /\ cycles[c].pc = "addHarvestGas" =>
            /\ Len(cycles[c].poolReads) = Len(cycles[c].harvests)
            /\ \A i \in DOMAIN cycles[c].harvests :
                  LET h == cycles[c].harvests[i]
                      r == cycles[c].poolReads[i]
                  IN /\ r.wavax # NoAnswer /\ r.usdt # NoAnswer
                     /\ r.wavax.reserve0 > 0 /\ r.usdt.reserve0 > 0
                     /\ IsFloorOf(h.gainWAVAX, h.harvestable * r.wavax.reserve1,
                                  r.wavax.reserve0)
                     /\ IsFloorOf(h.gainUSDT, h.harvestable * r.usdt.reserve1,
                                  r.usdt.reserve0)
                     /\ h.harvestable = 0 => h.gainWAVAX = 0 /\ h.gainUSDT = 0
       /\ (\E i \in DOMAIN cycles[c].poolReads : ZeroReserveIn(cycles[c].poolReads[i])) =>
            /\ cycles[c].pc = "failed"
            /\ ErrorsOf(c) = <<[cycle |-> c, stage |-> "addHarvestGain"]>>
            /\ SendsOf(c) = <<>>

\* C12 witness: a conversion that truncates and whose reserves differ, so that
\* swapping them would change the result.
C12_Witness ==
    \E c \in Cycles :
       /\ cycles[c].pc = "addHarvestGas"
       /\ \E i \in DOMAIN cycles[c].harvests :
             LET h == cycles[c].harvests[i]
                 r == cycles[c].poolReads[i].wavax
             IN /\ h.harvestable > 0
                /\ r.reserve0 > 1
                /\ r.reserve1 > r.reserve0
                /\ (h.harvestable * r.reserve1) % r.reserve0 # 0
                /\ h.gainWAVAX = (h.harvestable * r.reserve1 - 1) \div r.reserve0

Unfinished(c) == cycles[c].pc \notin {"done", "failed"}

\* C13: while the process runs, the interval tick can always start a new cycle
\* (up to the MaxCycles cycles explored), whatever stage the earlier cycles are
\* in: no tick waits for, or is skipped because of, an unfinished cycle.
C13_TickNeverWaits ==
    (proc = "running" /\ Len(cycles) < MaxCycles) => ENABLED Tick(Overlap)

\* C13 witness: two cycles are in flight together, the first with its
\* submissions pending, the second still reading.
C13_Witness ==
    /\ proc = "running"
    /\ Len(cycles) = 2
    /\ cycles[1].pc = "allSettled"
    /\ cycles[2].pc = "addHarvestGain"

\* the submission made by the call sends[i] has not settled yet
PendingSend(i) ==
    cycles[sends[i].cycle].settled[sends[i].index + 1] = Pending

\* C14 as stated: no two tx.send calls of different cycles that are in flight
\* together carry the same nonce.
C14_InFlightNoncesDiffer ==
    \A i, j \in DOMAIN sends :
       (i # j /\ sends[i].cycle # sends[j].cycle /\ PendingSend(i) /\ PendingSend(j))
       => sends[i].nonce # sends[j].nonce

\* a step of the promise chain of cycle c
CycleStep(c) ==
    \/ CreateHarvests(c, Overlap)
    \/ AddHarvestTx(c)
    \/ AddHarvestGain(c, Overlap)
    \/ AddHarvestGas(c, Overlap)
    \/ FilterHarvestByCostVsGain(c)
    \/ DoHarvesting(c)
    \/ \E k \in 1..MaxWants : Settle(c, k)

\* C15 as stated: a started cycle is never cut short from outside: whenever
\* the process has stopped, every cycle has reached logHarvestingResults or
\* has aborted through its own failure.
C15_NeverCutShort ==
    proc = "exited" => \A c \in Cycles : ~Unfinished(c)

\* C15 amended: while the process runs nothing outside a cycle stops or alters
\* it: its next step stays possible, its state changes only by its own steps,
\* and it is failed exactly when handleError ran for its own failure. The only
\* thing that cuts an unfinished cycle short is the process exit that
\* handleError scheduled for the failure of another cycle.
C15_CutShortOnlyByExit ==
    /\ [](/\ \A c \in Cycles :
                /\ (proc = "running" /\ Unfinished(c)) => ENABLED CycleStep(c)
                /\ cycles[c].pc = "failed" <=> ErrorsOf(c) # <<>>
                /\ (proc = "exited" /\ Unfinished(c))
                   => \E d \in Cycles \ {c} : cycles[d].pc = "failed")
    /\ [][\A c \in Cycles : cycles'[c] # cycles[c] => CycleStep(c)]_vars

\* C15 witness: the process has exited because the second cycle failed, while
\* the first cycle still had submissions pending.
C15_Witness ==
    /\ proc = "exited"
    /\ Len(cycles) = 2
    /\ cycles[1].pc = "allSettled"
    /\ \E k \in DOMAIN cycles[1].settled : cycles[1].settled[k] = Pending
    /\ cycles[2].pc = "failed"

\* sequence a is sequence b with some elements left out, the rest in b's order
IsSubsequence(a, b) ==
    \E f \in [DOMAIN a -> DOMAIN b] :
       /\ \A i, j \in DOMAIN a : i < j => f[i] < f[j]
       /\ \A i \in DOMAIN a : a[i] = b[f[i]]

StrategiesOf(harvests) == [i \in DOMAIN harvests |-> harvests[i].strategy]

\* the stages a chain is in after stages 1, 2, 3 and 4 have completed
AfterStages1To4 ==
    {"addHarvestTx", "addHarvestGain", "addHarvestGas", "filterHarvestByCostVsGain"}

\* C16: after each of stages 1-4 the cycle holds one record per discovered
\* strategy, in flattening order; stages 2-4 leave every field of every record
\* they received unchanged; the filter hands on unchanged records in their
\* relative order, so the Executor's records are an order-preserving
\* subsequence of the flattened strategy list.
C16_StagesKeepRecordsAligned ==
    /\ [](\A c \in Cycles :
            /\ cycles[c].strategyContracts = FlattenStrategies(contracts)
            /\ cycles[c].pc \in AfterStages1To4
               => StrategiesOf(cycles[c].harvests) = cycles[c].strategyContracts
            /\ cycles[c].pc \in {"doHarvesting", "allSettled", "done"}
               => IsSubsequence(StrategiesOf(cycles[c].harvests),
                                cycles[c].strategyContracts))
    /\ [][\A c \in Cycles :
            LET old == cycles[c].harvests
                new == cycles'[c].harvests
            IN /\ (cycles[c].pc \in AfterStages1To4 /\ cycles'[c].pc \in AfterStages1To4)
                  => /\ DOMAIN new = DOMAIN old
                     /\ \A i \in DOMAIN old : \A field \in DOMAIN old[i] :
                           /\ field \in DOMAIN new[i]
                           /\ new[i][field] = old[i][field]
               /\ (cycles[c].pc = "filterHarvestByCostVsGain"
                   /\ cycles'[c].pc = "doHarvesting")
                  => IsSubsequence(new, old)]_vars

\* C16 witness: of three discovered strategies the filter dropped the middle
\* one, and the Executor holds the records of the first and the third.
C16_Witness ==
    \E c \in Cycles :
       /\ Len(cycles[c].strategyContracts) = 3
       /\ Submitted(c)
       /\ Len(cycles[c].harvests) = 2
       /\ cycles[c].harvests[1].strategy = cycles[c].strategyContracts[1]
       /\ cycles[c].harvests[2].strategy = cycles[c].strategyContracts[3]

\* the fields the filter and the Executor read from a record
FilterFields ==
    {"harvestable", "treasuryFee", "treasuryMax", "tx", "gainWAVAX", "gainUSDT",
     "gas", "gasPrice"}

\* C17: every record of a cycle that is in the filter stage or beyond it
\* carries all of harvestable, treasuryFee, treasuryMax, tx, gainWAVAX,
\* gainUSDT, gas and gasPrice, each with a value that was really read.
C17_FilterRecordsComplete ==
    \A c \in Cycles :
       cycles[c].pc \in {"filterHarvestByCostVsGain", "doHarvesting", "allSettled", "done"}
       => \A i \in DOMAIN cycles[c].harvests :
             LET h == cycles[c].harvests[i]
             IN /\ FilterFields \subseteq DOMAIN h
                /\ \A field \in FilterFields \ {"tx"} : h[field] # Failed
                /\ h.tx = HarvestTxOf(h)

\* C17 witness: two cycles overlap, one holding two records in the filter
\* stage and the other holding two records in the Executor.
C17_Witness ==
    \E c, d \in Cycles :
       /\ cycles[c].pc = "filterHarvestByCostVsGain"
       /\ Len(cycles[c].harvests) = 2
       /\ cycles[d].pc = "allSettled"
       /\ Len(cycles[d].harvests) = 2

\* the two performanceTreasuryFee reads of a record returned the same non-zero value
SameFeeReads(h) == h.treasuryFee = h.treasuryMax /\ h.treasuryMax # 0

\* C18: for a record whose treasuryFee and treasuryMax are the same non-zero
\* value, the treasury gain the filter computes is the full gainWAVAX, and when
\* the filter completes the record is kept iff gas * gasPrice < gainWAVAX.
C18_EqualFeeReadsGiveFullGain ==
    /\ [](\A c \in Cycles :
            cycles[c].pc = "filterHarvestByCostVsGain"
            => \A i \in DOMAIN cycles[c].harvests :
                  LET h == cycles[c].harvests[i]
                  IN SameFeeReads(h)
                     => /\ treasuryGainAsAvax(h) = h.gainWAVAX
                        /\ KeepHarvest(h) <=> h.gas * h.gasPrice < h.gainWAVAX)
    /\ [][\A c \in Cycles :
            (cycles[c].pc = "filterHarvestByCostVsGain" /\ cycles'[c].pc = "doHarvesting")
            => \A i \in DOMAIN cycles[c].harvests :
                  LET h == cycles[c].harvests[i]
                  IN SameFeeReads(h)
                     => ((\E j \in DOMAIN cycles'[c].harvests : cycles'[c].harvests[j] = h)
                         <=> h.gas * h.gasPrice < h.gainWAVAX)]_vars

\* C18 witness: of two records the filter kept one, whose fee reads were both
\* 2 and whose gain is odd and exceeds the gas cost by one unit.
C18_Witness ==
    \E c \in Cycles :
       /\ cycles[c].pc = "doHarvesting"
       /\ Len(cycles[c].strategyContracts) = 2
       /\ Len(cycles[c].harvests) = 1
       /\ LET h == cycles[c].harvests[1]
          IN /\ h.treasuryFee = 2
             /\ h.treasuryMax = 2
             /\ h.gainWAVAX = 3
             /\ h.gas * h.gasPrice = 2

FilterError(c) == [cycle |-> c, stage |-> "filterHarvestByCostVsGain"]

ZeroTreasuryMax(c) ==
    \E i \in DOMAIN cycles[c].harvests : cycles[c].harvests[i].treasuryMax = 0

\* C19: when some record of a cycle in the filter stage has treasuryMax zero,
\* the only step the cycle takes is the abort through handleError, and a cycle
\* aborted in the filter has read no transaction count and submitted nothing,
\* whatever its other records are; the filter fails for no other reason.
C19_ZeroTreasuryMaxAbortsCycle ==
    /\ [](\A c \in Cycles :
            (\E i \in DOMAIN errors : errors[i] = FilterError(c))
            => /\ cycles[c].pc = "failed"
               /\ ZeroTreasuryMax(c)
               /\ cycles[c].nonceReads = 0
               /\ SendsOf(c) = <<>>
               /\ cycles[c].settled = <<>>
               /\ cycles[c].reported = <<>>)
    /\ [][\A c \in Cycles :
            (cycles[c].pc = "filterHarvestByCostVsGain" /\ cycles'[c] # cycles[c])
            => IF ZeroTreasuryMax(c)
               THEN /\ cycles'[c].pc = "failed"
                    /\ errors' = Append(errors, FilterError(c))
                    /\ exitTimers' = exitTimers + 1
                    /\ sends' = sends
               ELSE /\ cycles'[c].pc = "doHarvesting"
                    /\ errors' = errors]_vars

\* C19 witness: with dry-run off, a cycle was aborted in the filter because its
\* first record had treasuryMax zero, although its second record's treasury
\* gain exceeded its gas cost; nothing was sent for either.
C19_Witness ==
    /\ ~TEST_MODE
    /\ \E c \in Cycles :
          /\ \E i \in DOMAIN errors : errors[i] = FilterError(c)
          /\ Len(cycles[c].harvests) = 2
          /\ cycles[c].harvests[1].treasuryMax = 0
          /\ cycles[c].harvests[2].treasuryMax # 0
          /\ KeepHarvest(cycles[c].harvests[2])
          /\ SendsOf(c) = <<>>

====
